---- MODULE Spec2Model ----
(***************************************************************************)
(* Media ingestion / optimization / deletion pipeline of the Media Vault   *)
(* backend: the two uploadMedia handlers (/api/media and                   *)
(* /api/external/media), optimizeMedia, deleteMedia, and the detached      *)
(* ffmpeg jobs they launch.  uploadMedia is cut at `await Media.create`,   *)
(* which it reaches after it has started its ffmpeg jobs; the transcode    *)
(* callback of optimizeMedia is cut at `await media.save()`, and so is the *)
(* image branch of optimizeMedia at its first save.  The other branches of *)
(* optimizeMedia, and deleteMedia, are one step each, from the lookup to   *)
(* the response.                                                           *)
(***************************************************************************)
EXTENDS Integers, Sequences, FiniteSets, TLC

-----------------------------------------------------------------------------
(* Bounds of the model *)

\* upload requests that carry a file (each draws one uuid file name)
MaxUploads == 2
\* transcodes launched by optimizeMedia that run at the same time
MaxOptimizeJobs == 1
\* uploadMedia handlers suspended at `await Media.create` at the same time
MaxInFlight == 1
\* createApiKey requests
MaxKeyRequests == 3

-----------------------------------------------------------------------------
(* Principals and inputs *)

\* accounts present in the User collection
Accounts == {"u1", "u2"}
\* owners of valid API keys; "u3" is a key whose account is no longer in the
\* User collection (the case external uploadMedia answers with 401)
KeyOwners == Accounts \cup {"u3"}

\* uploaded files: MIME type (type/subtype) and the extension of originalname
Files ==
  { [type |-> "image", sub |-> "png",  ext |-> ".png"],
    [type |-> "image", sub |-> "webp", ext |-> ".webp"],
    [type |-> "video", sub |-> "mp4",  ext |-> ".mp4"],
    [type |-> "application", sub |-> "pdf", ext |-> ".pdf"] }

\* fileFilter of the external router: images and videos only
ExternalFileFilter(f) == f.type = "image" \/ f.type = "video"

\* utils: isImage / isVideo (prefix match on the MIME type)
isImage(f) == f.type = "image"
isVideo(f) == f.type = "video"

\* mediaType of both upload handlers and of optimizeMedia / deleteMedia
MediaType(f) == IF isImage(f) THEN "images" ELSE IF isVideo(f) THEN "videos" ELSE "documents"

-----------------------------------------------------------------------------
(* File names, paths and URLs.                                             *)
(* A name is prefix* ++ stem ++ ext, the stem being the uuid drawn by      *)
(* multer's filename callback; a path is a directory (the segments below   *)
(* BASE_UPLOAD_PATH) and a name; a URL is baseUrl/uploads/<segments>/name. *)

Name(p, s, e) == [p |-> p, s |-> s, e |-> e]
NoName == Name(<<>>, 0, "")
At(dir, n) == [dir |-> dir, n |-> n]
\* the value of an unset thumbnailUrl / optimizedFileUrl
NullUrl == At(<<"null">>, NoName)

\* `${path.parse(name).name}.webp`
WebpName(n) == Name(n.p, n.s, ".webp")
\* `thumb_${webpFilename}`
ImageThumbName(webp) == Name(<<"thumb_">> \o webp.p, webp.s, webp.e)
\* `thumb_${path.parse(name).name}.jpg`
VideoThumbName(n) == Name(<<"thumb_">> \o n.p, n.s, ".jpg")
\* `opt_${path.parse(name).name}.mp4`
OptVideoName(n) == Name(<<"opt_">> \o n.p, n.s, ".mp4")
\* `opt_${path.parse(name).name}.webp`
OptWebpName(n) == Name(<<"opt_">> \o n.p, n.s, ".webp")

getUserFilePath(userId, mediaType, filename) == At(<<userId, mediaType>>, filename)
getThumbnailPath(userId, filename) == At(<<userId, "thumbnails">>, filename)
getOptimizedPath(userId, mediaType, filename) == At(<<userId, mediaType, "optimized">>, filename)

\* `${baseUrl}/uploads/${userId}/${mediaType}/${name}` and its two siblings
FileUrl(userId, mediaType, filename) == At(<<userId, mediaType>>, filename)
ThumbUrl(userId, filename) == At(<<userId, "thumbnails">>, filename)
OptimizedUrl(userId, mediaType, filename) == At(<<userId, mediaType, "optimized">>, filename)

\* url.includes('/optimized/')
IncludesOptimized(url) == \E i \in 1..Len(url.dir) : url.dir[i] = "optimized"
\* path.basename(url)
Basename(url) == url.n

\* fs.statSync(path).size: the size of whatever is stored at path
StatSize(path) == [of |-> path]

\* every prefix of a directory: what mkdirSync(dir, {recursive: true}) creates
Prefixes(dir) == { SubSeq(dir, 1, i) : i \in 1..Len(dir) }

\* ensureUserDirExists(userId, subDir): the directories that exist afterwards
ensureUserDirExists(ds, userId, subDir) == ds \cup Prefixes(<<userId>> \o subDir)

\* destination callback of the account-based multer storage (/api/media)
MediaDestination(ds, userId, mediaType) ==
  ds \cup Prefixes(<<userId, mediaType>>) \cup Prefixes(<<userId, "thumbnails">>)
     \cup Prefixes(<<userId, "images", "optimized">>)
     \cup Prefixes(<<userId, "videos", "optimized">>)

\* destination callback of the external router's multer storage:
\* ./uploads/images, ./uploads/videos or ./uploads, whoever the owner is
ExternalDestination(f) ==
  IF f.type = "image" THEN <<"images">> ELSE IF f.type = "video" THEN <<"videos">> ELSE <<>>

\* directories the external router creates when it is loaded
StagingDirs == {<<"images">>, <<"videos">>}

-----------------------------------------------------------------------------
(* The Media collection *)

\* Mongo ObjectIds of the Media collection, in order of creation
ObjectIds == 1..MaxUploads
NoId == 0
\* `const dbRecordId = uuidv4()`: a uuid string, never an ObjectId
UuidRecordId(k) == [uuid |-> k]

NoDoc == [fileName |-> NoName, originalFileName |-> "", fileType |-> [type |-> "", sub |-> "", ext |-> ""],
          fileSize |-> StatSize(At(<<>>, NoName)), fileUrl |-> NullUrl, thumbnailUrl |-> NullUrl,
          optimizedFileUrl |-> NullUrl, userId |-> "", isOptimized |-> FALSE, id |-> NoId]

VARIABLES
  fs,        \* the files on disk (paths)
  dirs,      \* the directories on disk
  records,   \* the Media collection: ObjectId -> document
  jobs,      \* the ffmpeg jobs still running (or inside their end callback),
             \* and the optimizeMedia handlers suspended between their two saves
  inflight,  \* uploadMedia handlers suspended at `await Media.create`
  uploads,   \* per upload request with a file: what happened to it (history)
  deleted,   \* the documents deleteMedia has removed (history)
  apiKeys,   \* the ApiKey collection, in order of creation
  keyRequests \* per createApiKey request: what happened to it (history)

vars == <<fs, dirs, records, jobs, inflight, uploads, deleted, apiKeys, keyRequests>>

\* a response: the HTTP status and the `media` object of the body
Respond(status, media) == [status |-> status, media |-> media]

\* fault variant of findOne: the owner is not part of the query
findOneAnyOwner(mediaId, userId) ==
  IF mediaId \in DOMAIN records THEN records[mediaId] ELSE NoDoc

\* Media.findOne({ _id: mediaId, userId })
findOne(mediaId, userId) ==
  IF mediaId \in DOMAIN records /\ records[mediaId].userId = userId
  THEN records[mediaId] ELSE NoDoc

Init ==
  /\ fs = {}
  /\ dirs = StagingDirs
  /\ records = <<>>
  /\ jobs = {}
  /\ inflight = {}
  /\ uploads = <<>>
  /\ deleted = {}
  /\ apiKeys = <<>>
  /\ keyRequests = <<>>

-----------------------------------------------------------------------------
(* Upload: multer, then uploadMedia up to `await Media.create`              *)

Routes == {"media", "external"}

\* ways the synchronous image pipeline can fail: the WebP re-encode, the
\* statSync of its output, the thumbnail write
ImageFailures == {"none", "encode", "stat", "thumb"}

Continuation(route, owner, k, doc) == [route |-> route, owner |-> owner, k |-> k, doc |-> doc]

Upload(route, owner, f, path, st, status) ==
  [route |-> route, owner |-> owner, file |-> f, path |-> path, st |-> st, status |-> status,
   rec |-> NoId, created |-> 0, media |-> NoDoc, trans |-> "none", thumb |-> "none"]

Job(kind, origin, n, owner, src, out, doc) ==
  [kind |-> kind, origin |-> origin, n |-> n, owner |-> owner, src |-> src, out |-> out,
   dbRecordId |-> UuidRecordId(n), doc |-> doc, st |-> "running"]

\* who reaches the handlers: `protect` lets only accounts through to
\* /api/media; validateApiKey lets every key owner through to /api/external
Callers(route) == IF route = "media" THEN Accounts ELSE KeyOwners

\* where multer stores the file, and the directories it creates on the way
StoredPath(route, owner, f, name) ==
  IF route = "media" THEN At(<<owner, MediaType(f)>>, name) ELSE At(ExternalDestination(f), name)
StoredDirs(route, owner, f) ==
  IF route = "media" THEN MediaDestination(dirs, owner, MediaType(f)) ELSE dirs

\* `if (!req.file) throw new ApiError('No file uploaded', 400)`: multer stored nothing
UploadNoFile(route) ==
  /\ route \in Routes
  /\ UNCHANGED <<fs, dirs, records, jobs, inflight, uploads, deleted, apiKeys, keyRequests>>

\* the precondition checks of uploadMedia, in their order: no file -> 400,
\* no owner or no account of the owner -> 401; 0 when the upload goes on
UploadRejection(hasFile, owner) ==
  IF ~hasFile THEN 400 ELSE IF owner \notin Accounts THEN 401 ELSE 0

\* external uploadMedia: `User.findById(userId)` finds no account -> 401;
\* multer has stored the file before the handler runs
UploadNoAccount(owner, f) ==
  /\ owner \in KeyOwners \ Accounts
  /\ ExternalFileFilter(f)
  /\ Len(uploads) < MaxUploads
  /\ LET k == Len(uploads) + 1
         path == StoredPath("external", owner, f, Name(<<>>, k, f.ext))
     IN /\ fs' = fs \cup {path}
        /\ uploads' = Append(uploads, Upload("external", owner, f, path, "failed", UploadRejection(TRUE, owner)))
  /\ UNCHANGED <<dirs, records, jobs, inflight, deleted, apiKeys, keyRequests>>

\* fault variant of ImageFields: the record is created with isOptimized at
\* its default
ImageFieldsUnoptimized(owner, f, name) ==
  LET webp == WebpName(name)
      url == OptimizedUrl(owner, MediaType(f), webp)
  IN [fileName |-> webp, originalFileName |-> f.ext, fileType |-> f,
      fileSize |-> StatSize(getOptimizedPath(owner, MediaType(f), webp)),
      fileUrl |-> url, thumbnailUrl |-> ThumbUrl(owner, ImageThumbName(webp)),
      optimizedFileUrl |-> url, userId |-> owner, isOptimized |-> FALSE, id |-> NoId]

\* the fields uploadMedia computes for an image
ImageFields(owner, f, name) ==
  LET webp == WebpName(name)
      url == OptimizedUrl(owner, MediaType(f), webp)
  IN [fileName |-> webp, originalFileName |-> f.ext, fileType |-> f,
      fileSize |-> StatSize(getOptimizedPath(owner, MediaType(f), webp)),
      fileUrl |-> url, thumbnailUrl |-> ThumbUrl(owner, ImageThumbName(webp)),
      optimizedFileUrl |-> url, userId |-> owner, isOptimized |-> TRUE, id |-> NoId]

\* fault variants of ImageFiles: the original is never unlinked; the
\* original is unlinked as soon as the re-encode has been written
ImageFilesKeepOriginal(path, optimizedPath, thumbnailPath, encoded, thumbed) ==
  IF thumbed THEN fs \cup {path, optimizedPath, thumbnailPath}
  ELSE IF encoded THEN fs \cup {path, optimizedPath}
  ELSE fs \cup {path}
ImageFilesUnlinkEarly(path, optimizedPath, thumbnailPath, encoded, thumbed) ==
  IF thumbed THEN (fs \cup {optimizedPath, thumbnailPath}) \ {path}
  ELSE IF encoded THEN (fs \cup {optimizedPath}) \ {path}
  ELSE fs \cup {path}

\* what is on disk after the image branch, by how far it got: the original
\* is unlinked only after the thumbnail has been written
ImageFiles(path, optimizedPath, thumbnailPath, encoded, thumbed) ==
  IF thumbed THEN (fs \cup {optimizedPath, thumbnailPath}) \ {path}
  ELSE IF encoded THEN fs \cup {path, optimizedPath}
  ELSE fs \cup {path}

\* image branch of both uploadMedia handlers
UploadImage(route, owner, f, fail) ==
  /\ owner \in Callers(route) \cap Accounts
  /\ route = "external" => ExternalFileFilter(f)
  /\ isImage(f)
  /\ Len(uploads) < MaxUploads
  /\ LET k == Len(uploads) + 1
         name == Name(<<>>, k, f.ext)
         path == StoredPath(route, owner, f, name)
         webp == WebpName(name)
         optimizedPath == getOptimizedPath(owner, MediaType(f), webp)
         thumbnailPath == getThumbnailPath(owner, ImageThumbName(webp))
         dirs1 == ensureUserDirExists(StoredDirs(route, owner, f), owner, <<MediaType(f), "optimized">>)
         \* sharp(...).toFile(optimizedPath), statSync, sharp(...).toFile(thumbnailPath)
         encoded == fail # "encode"
         statted == encoded /\ fail # "stat"
         thumbed == statted /\ fail # "thumb" /\ <<owner, "thumbnails">> \in dirs1
     IN /\ thumbed => Cardinality(inflight) < MaxInFlight
        /\ dirs' = dirs1
        /\ fs' = ImageFiles(path, optimizedPath, thumbnailPath, encoded, thumbed)
        /\ IF thumbed
           THEN /\ uploads' = Append(uploads, Upload(route, owner, f, path, "pending", 0))
                /\ inflight' = inflight \cup {Continuation(route, owner, k, ImageFields(owner, f, name))}
           ELSE /\ uploads' = Append(uploads, Upload(route, owner, f, path, "failed", 500))
                /\ inflight' = inflight
  /\ UNCHANGED <<records, jobs, deleted, apiKeys, keyRequests>>

\* the fields uploadMedia computes for a video or a document
PlainFields(owner, f, name, path, thumbnailUrl) ==
  [fileName |-> name, originalFileName |-> f.ext, fileType |-> f, fileSize |-> StatSize(path),
   fileUrl |-> FileUrl(owner, MediaType(f), name), thumbnailUrl |-> thumbnailUrl,
   optimizedFileUrl |-> NullUrl, userId |-> owner, isOptimized |-> FALSE, id |-> NoId]

\* fault variant of VideoHome: the external handler does not move the file
VideoHomeUnmoved(route, owner, f, name, path) == path

\* the path the external handler moves a video to (fs.renameSync); the
\* /api/media handler leaves the file where multer stored it
VideoHome(route, owner, f, name, path) ==
  IF route = "media" THEN path ELSE getUserFilePath(owner, MediaType(f), name)

\* fault variant of UploadTranscode: the upload's transcode writes a file of its own
UploadTranscodeOwnOutput(k, owner, src, out) ==
  {Job("transcode", "upload", k, owner, src, At(out.dir, Name(<<"up_">>, out.n.s, out.n.e)), NoDoc)}

\* the transcode uploadMedia starts with .run() before it calls Media.create
UploadTranscode(k, owner, src, out) == {Job("transcode", "upload", k, owner, src, out, NoDoc)}

\* video branch of both uploadMedia handlers
UploadVideo(route, owner, f) ==
  /\ owner \in Callers(route) \cap Accounts
  /\ route = "external" => ExternalFileFilter(f)
  /\ isVideo(f)
  /\ Len(uploads) < MaxUploads
  /\ Cardinality(inflight) < MaxInFlight
  /\ LET k == Len(uploads) + 1
         name == Name(<<>>, k, f.ext)
         path == StoredPath(route, owner, f, name)
         home == VideoHome(route, owner, f, name, path)
         thumbnailPath == getThumbnailPath(owner, VideoThumbName(name))
         optimizedPath == getOptimizedPath(owner, MediaType(f), OptVideoName(name))
         dirs1 == ensureUserDirExists(StoredDirs(route, owner, f), owner, <<"thumbnails">>)
         dirs2 == IF route = "media" THEN dirs1 ELSE ensureUserDirExists(dirs1, owner, <<MediaType(f)>>)
     IN /\ dirs' = ensureUserDirExists(dirs2, owner, <<MediaType(f), "optimized">>)
        /\ fs' = (fs \ {path}) \cup {home}
        /\ jobs' = jobs \cup {Job("thumb", "upload", k, owner, path, thumbnailPath, NoDoc)}
                        \cup UploadTranscode(k, owner, home, optimizedPath)
        /\ uploads' = Append(uploads,
             [Upload(route, owner, f, path, "pending", 0) EXCEPT !.trans = "running", !.thumb = "running"])
        /\ inflight' = inflight \cup
             { Continuation(route, owner, k,
                 PlainFields(owner, f, name, path, ThumbUrl(owner, VideoThumbName(name)))) }
  /\ UNCHANGED <<records, deleted, apiKeys, keyRequests>>

\* document branch (the external fileFilter turns documents away)
UploadDocument(owner, f) ==
  /\ owner \in Accounts
  /\ ~isImage(f) /\ ~isVideo(f)
  /\ Len(uploads) < MaxUploads
  /\ Cardinality(inflight) < MaxInFlight
  /\ LET k == Len(uploads) + 1
         name == Name(<<>>, k, f.ext)
         path == StoredPath("media", owner, f, name)
     IN /\ dirs' = StoredDirs("media", owner, f)
        /\ fs' = fs \cup {path}
        /\ uploads' = Append(uploads, Upload("media", owner, f, path, "pending", 0))
        /\ inflight' = inflight \cup
             { Continuation("media", owner, k, PlainFields(owner, f, name, path, NullUrl)) }
  /\ UNCHANGED <<records, jobs, deleted, apiKeys, keyRequests>>

\* the ObjectId Media.create gives the next document
NextObjectId == Cardinality({ k \in 1..Len(uploads) : uploads[k].created > 0 }) + 1

\* fault variant of create: the document is inserted twice
createTwice(id, fields) ==
  (id :> [fields EXCEPT !.id = id]) @@ ((id + 1) :> [fields EXCEPT !.id = id + 1]) @@ records

\* Media.create(fields): the collection afterwards
create(id, fields) == (id :> [fields EXCEPT !.id = id]) @@ records

\* the 201 response of uploadMedia: the fields of the created document
UploadResponse(id, fields) == Respond(201, [fields EXCEPT !.id = id])

\* `const media = await Media.create({...}); res.status(201).json(...)`
UploadCreate(c) ==
  /\ c \in inflight
  /\ LET id == NextObjectId
     IN /\ records' = create(id, c.doc)
        /\ uploads' = [uploads EXCEPT ![c.k].st = "accepted", ![c.k].rec = id,
                                      ![c.k].status = UploadResponse(id, c.doc).status,
                                      ![c.k].media = UploadResponse(id, c.doc).media,
                                      ![c.k].created = Cardinality(DOMAIN records' \ DOMAIN records)]
  /\ inflight' = inflight \ {c}
  /\ UNCHANGED <<fs, dirs, jobs, deleted, apiKeys, keyRequests>>

-----------------------------------------------------------------------------
(* The detached ffmpeg jobs of an upload *)

JobsOf(kind, origin) == { j \in jobs : j.kind = kind /\ j.origin = origin }

\* screenshots(...) succeeds: ffmpeg could read its source and wrote the frame
ThumbnailEnd(j) ==
  /\ j \in JobsOf("thumb", "upload")
  /\ j.src \in fs
  /\ fs' = fs \cup {j.out}
  /\ jobs' = jobs \ {j}
  /\ uploads' = [uploads EXCEPT ![j.n].thumb = "ok"]
  /\ UNCHANGED <<dirs, records, inflight, deleted, apiKeys, keyRequests>>

\* .on('error'): only logs
ThumbnailError(j) ==
  /\ j \in JobsOf("thumb", "upload")
  /\ jobs' = jobs \ {j}
  /\ uploads' = [uploads EXCEPT ![j.n].thumb = "error"]
  /\ UNCHANGED <<fs, dirs, records, inflight, deleted, apiKeys, keyRequests>>

\* Mongoose casts the _id of a query to ObjectId; a uuid string (36
\* characters) does not cast and the query rejects with CastError
CastsToObjectId(id) == DOMAIN id = {"oid"}

\* Media.findByIdAndUpdate(id, {optimizedFileUrl, isOptimized, fileSize})
findByIdAndUpdate(id, optimizedUrl, size) ==
  IF CastsToObjectId(id) /\ id.oid \in DOMAIN records
  THEN [records EXCEPT ![id.oid].optimizedFileUrl = optimizedUrl,
                       ![id.oid].isOptimized = TRUE,
                       ![id.oid].fileSize = size]
  ELSE records

\* .on('end') of the transcode started by uploadMedia: statSync, then
\* findByIdAndUpdate(dbRecordId, ...); the unlink of the original comes after
\* the update and is skipped when the update throws
UploadTranscodeEnd(j) ==
  /\ j \in JobsOf("transcode", "upload")
  /\ j.src \in fs
  /\ LET optimizedUrl == OptimizedUrl(j.owner, "videos", Basename(j.out))
         thrown == ~CastsToObjectId(j.dbRecordId)
     IN /\ records' = findByIdAndUpdate(j.dbRecordId, optimizedUrl, StatSize(j.out))
        /\ fs' = IF thrown THEN fs \cup {j.out} ELSE (fs \cup {j.out}) \ {j.src}
  /\ jobs' = jobs \ {j}
  /\ uploads' = [uploads EXCEPT ![j.n].trans = "ok"]
  /\ UNCHANGED <<dirs, inflight, deleted, apiKeys, keyRequests>>

\* fault variant of TranscodeError: the failed job's source is unlinked
TranscodeErrorUnlinks(j) ==
  /\ j \in jobs /\ j.kind = "transcode" /\ j.st = "running"
  /\ jobs' = jobs \ {j}
  /\ fs' = fs \ {j.src}
  /\ uploads' = IF j.origin = "upload" THEN [uploads EXCEPT ![j.n].trans = "error"] ELSE uploads
  /\ UNCHANGED <<dirs, records, inflight, deleted, apiKeys, keyRequests>>

\* .on('error') of a transcode, whoever started it: only logs
TranscodeError(j) ==
  /\ j \in jobs /\ j.kind = "transcode" /\ j.st = "running"
  /\ jobs' = jobs \ {j}
  /\ uploads' = IF j.origin = "upload" THEN [uploads EXCEPT ![j.n].trans = "error"] ELSE uploads
  /\ UNCHANGED <<fs, dirs, records, inflight, deleted, apiKeys, keyRequests>>

-----------------------------------------------------------------------------
(* optimizeMedia (POST /api/media/:id/optimize) *)

\* fault variant of AlreadyOptimized: no short-circuit
AlreadyOptimizedNever(doc) == FALSE

\* `if (media.isOptimized && media.optimizedFileUrl)`
AlreadyOptimized(doc) == doc.isOptimized /\ doc.optimizedFileUrl # NullUrl

\* fault variant of Saved: the write is lost
SavedNothing(id, changes) == records

\* media.save() of a document loaded earlier: writes the changed fields to
\* the stored document (callers handle the document having been deleted,
\* where save() throws DocumentNotFoundError)
Saved(id, changes) ==
  [records EXCEPT ![id] = [f \in DOMAIN @ |-> IF f \in DOMAIN changes THEN changes[f] ELSE @[f]]]

\* fault variant of OptimizeBranch: whatever is not an image is transcoded
OptimizeBranchAnyType(doc) ==
  IF doc = NoDoc THEN "notfound"
  ELSE IF AlreadyOptimized(doc) THEN "already"
  ELSE IF isImage(doc.fileType) THEN (IF doc.fileName.e # ".webp" THEN "image" ELSE "webp")
  ELSE "video"

\* the branch optimizeMedia takes for the document it found
OptimizeBranch(doc) ==
  IF doc = NoDoc THEN "notfound"
  ELSE IF AlreadyOptimized(doc) THEN "already"
  ELSE IF isImage(doc.fileType) THEN (IF doc.fileName.e # ".webp" THEN "image" ELSE "webp")
  ELSE IF isVideo(doc.fileType) THEN "video"
  ELSE "unsupported"

\* the fields the completed transcode of optimizeMedia saves
TranscodeChanges(optimizedUrl, size) ==
  [optimizedFileUrl |-> optimizedUrl, isOptimized |-> TRUE, fileSize |-> size, fileUrl |-> optimizedUrl]

\* what tells the transcodes optimizeMedia has in flight apart: each is a
\* separate ffmpeg process with its own callbacks
FreeOptimizeSlot ==
  CHOOSE s \in 1..MaxOptimizeJobs : \A j \in JobsOf("transcode", "optimize") : j.n # s

\* the fields the image branch of optimizeMedia saves: all four when it
\* unlinks the source, the first three otherwise
ImageChanges(optimizedUrl, size, moved) ==
  IF moved
  THEN [optimizedFileUrl |-> optimizedUrl, isOptimized |-> TRUE, fileSize |-> size, fileUrl |-> optimizedUrl]
  ELSE [optimizedFileUrl |-> optimizedUrl, isOptimized |-> TRUE, fileSize |-> size]

\* fault variant of OptimizeResponse: the video branch answers 200 with the
\* record, as if the transcode had been awaited
OptimizeResponseVideoAwaited(owner, id) ==
  LET doc == findOne(id, owner)
  IN IF doc = NoDoc THEN Respond(404, NoDoc) ELSE Respond(200, doc)

\* what optimizeMedia answers, from the state it finds
OptimizeResponse(owner, id) ==
  LET doc == findOne(id, owner)
      branch == OptimizeBranch(doc)
      sourcePath == getUserFilePath(owner, MediaType(doc.fileType), doc.fileName)
      optimizedPath == getOptimizedPath(owner, MediaType(doc.fileType), OptWebpName(doc.fileName))
      optimizedUrl == OptimizedUrl(owner, MediaType(doc.fileType), OptWebpName(doc.fileName))
  IN CASE branch = "notfound" -> Respond(404, NoDoc)
       [] branch = "already" -> Respond(200, doc)
       [] branch = "image" ->
            IF sourcePath \in fs
            THEN Respond(200, Saved(id, ImageChanges(optimizedUrl, StatSize(optimizedPath),
                                                     sourcePath # optimizedPath))[id])
            ELSE Respond(500, NoDoc)
       [] branch = "webp" -> Respond(200, Saved(id, [isOptimized |-> TRUE])[id])
       [] branch = "video" -> Respond(202, [NoDoc EXCEPT !.id = id])
       [] OTHER -> Respond(400, NoDoc)

\* the image branch of optimizeMedia suspended at its first `await media.save()`
ImageContinuation(owner, sourcePath, optimizedPath, doc) ==
  [Job("image", "optimize", doc.id, owner, sourcePath, optimizedPath, doc) EXCEPT !.st = "saved"]

\* optimizeMedia, from the lookup to the response; the image branch up to
\* its first `await media.save()`
OptimizeMedia(owner, id) ==
  /\ owner \in Accounts /\ id \in ObjectIds
  /\ LET doc == findOne(id, owner)
         branch == OptimizeBranch(doc)
         mediaType == MediaType(doc.fileType)
         sourcePath == getUserFilePath(owner, mediaType, doc.fileName)
         optName == IF branch = "image" THEN OptWebpName(doc.fileName) ELSE OptVideoName(doc.fileName)
         optimizedPath == getOptimizedPath(owner, mediaType, optName)
         optimizedUrl == OptimizedUrl(owner, mediaType, optName)
         \* image branch: sharp(sourcePath) throws when the source is missing
         encoded == sourcePath \in fs
     IN /\ branch = "video" => Cardinality(JobsOf("transcode", "optimize")) < MaxOptimizeJobs
        /\ dirs' = IF branch \in {"image", "video"}
                   THEN ensureUserDirExists(dirs, owner, <<mediaType, "optimized">>) ELSE dirs
        /\ fs' = IF branch = "image" /\ encoded THEN fs \cup {optimizedPath} ELSE fs
        /\ records' = IF branch = "image" /\ encoded
                      THEN Saved(id, ImageChanges(optimizedUrl, StatSize(optimizedPath), FALSE))
                      ELSE IF branch = "webp" THEN Saved(id, [isOptimized |-> TRUE])
                      ELSE records
        /\ jobs' = IF branch = "video"
                   THEN jobs \cup {Job("transcode", "optimize", FreeOptimizeSlot, owner, sourcePath, optimizedPath, doc)}
                   ELSE IF branch = "image" /\ encoded
                   THEN jobs \cup {ImageContinuation(owner, sourcePath, optimizedPath, doc)}
                   ELSE jobs
  /\ UNCHANGED <<inflight, uploads, deleted, apiKeys, keyRequests>>

\* .on('end') of the transcode started by optimizeMedia, up to `await media.save()`
OptimizeTranscodeEnd(j) ==
  /\ j \in JobsOf("transcode", "optimize") /\ j.st = "running"
  /\ j.src \in fs
  /\ LET optimizedUrl == OptimizedUrl(j.owner, "videos", Basename(j.out))
         stored == j.doc.id \in DOMAIN records
     IN /\ fs' = fs \cup {j.out}
        /\ records' = IF stored THEN Saved(j.doc.id, TranscodeChanges(optimizedUrl, StatSize(j.out)))
                      ELSE records
        /\ jobs' = IF stored THEN (jobs \ {j}) \cup {[j EXCEPT !.st = "saved"]} ELSE jobs \ {j}
  /\ UNCHANGED <<dirs, inflight, uploads, deleted, apiKeys, keyRequests>>

\* fault variants of FileUrlChange: fileUrl is left as it was; the second
\* save writes back the isOptimized the handler loaded
FileUrlKept(optimizedUrl) == [isOptimized |-> TRUE]
FileUrlChangeStale(optimizedUrl) == [fileUrl |-> optimizedUrl, isOptimized |-> FALSE]

\* `media.fileUrl = optimizedUrl` before the second save of the image branch
FileUrlChange(optimizedUrl) == [fileUrl |-> optimizedUrl]

\* the rest of the image branch of optimizeMedia, after its first save:
\* `if (fs.existsSync(sourcePath) && sourcePath !== optimizedPath)
\*    { fs.unlinkSync(sourcePath); media.fileUrl = optimizedUrl; await media.save() }`
\* (save() throws when the document has been deleted meanwhile)
OptimizeImageFinish(j) ==
  /\ j \in JobsOf("image", "optimize")
  /\ LET moved == j.src \in fs /\ j.src # j.out
         optimizedUrl == OptimizedUrl(j.owner, "images", Basename(j.out))
     IN /\ fs' = IF moved THEN fs \ {j.src} ELSE fs
        /\ records' = IF moved /\ j.doc.id \in DOMAIN records
                      THEN Saved(j.doc.id, FileUrlChange(optimizedUrl)) ELSE records
  /\ jobs' = jobs \ {j}
  /\ UNCHANGED <<dirs, inflight, uploads, deleted, apiKeys, keyRequests>>

\* the rest of that callback:
\* `if (fs.existsSync(sourcePath) && sourcePath !== optimizedPath) fs.unlinkSync(sourcePath)`
OptimizeTranscodeUnlink(j) ==
  /\ j \in JobsOf("transcode", "optimize") /\ j.st = "saved"
  /\ fs' = IF j.src # j.out THEN fs \ {j.src} ELSE fs
  /\ jobs' = jobs \ {j}
  /\ UNCHANGED <<dirs, records, inflight, uploads, deleted, apiKeys, keyRequests>>

-----------------------------------------------------------------------------
(* deleteMedia (DELETE /api/media/:id and /api/external/media/:id) *)

\* fault variant of DeleteOriginal: the normal location is unlinked whatever
\* fileUrl says
DeleteOriginalAlways(owner, doc) ==
  {getUserFilePath(owner, MediaType(doc.fileType), doc.fileName)}

\* the file deleteMedia unlinks "in the normal location"
DeleteOriginal(owner, doc) ==
  IF doc.fileUrl # NullUrl /\ ~IncludesOptimized(doc.fileUrl)
  THEN {getUserFilePath(owner, MediaType(doc.fileType), doc.fileName)} ELSE {}

\* fault variant of DeleteThumbnail: every thumbnail of the owner is unlinked
DeleteThumbnailAll(owner, doc) == { p \in fs : p.dir = <<owner, "thumbnails">> }

\* fault variant of DeleteThumbnail: the thumbnail is left behind
DeleteThumbnailSkipped(owner, doc) == {}

\* the thumbnail it unlinks
DeleteThumbnail(owner, doc) ==
  IF doc.thumbnailUrl # NullUrl THEN {getThumbnailPath(owner, Basename(doc.thumbnailUrl))} ELSE {}

\* the optimized version it unlinks
DeleteOptimized(owner, doc) ==
  IF doc.optimizedFileUrl # NullUrl \/ IncludesOptimized(doc.fileUrl)
  THEN {getOptimizedPath(owner, MediaType(doc.fileType),
          Basename(IF doc.optimizedFileUrl # NullUrl THEN doc.optimizedFileUrl ELSE doc.fileUrl))}
  ELSE {}

\* media.deleteOne(): the collection afterwards
deleteOne(id) == [i \in DOMAIN records \ {id} |-> records[i]]

\* what getMediaById answers, from the state it finds
ReadResponse(owner, id) ==
  IF findOne(id, owner) = NoDoc THEN Respond(404, NoDoc) ELSE Respond(200, findOne(id, owner))

\* getMediaById (GET /api/media/:id and /api/external/media/:id): reads only
GetMediaById(owner, id) ==
  /\ owner \in KeyOwners /\ id \in ObjectIds
  /\ UNCHANGED <<fs, dirs, records, jobs, inflight, uploads, deleted, apiKeys, keyRequests>>

\* fault variant of DeleteResponse: every deletion is answered 200
DeleteResponseAlwaysOk(owner, id) == Respond(200, [NoDoc EXCEPT !.id = id])

\* the transcodes in flight for the record id: the one its upload started
\* and the ones optimizeMedia started
TranscodesOf(id) ==
  { j \in jobs :
      /\ j.kind = "transcode"
      /\ \/ j.origin = "optimize" /\ j.doc.id = id
         \/ j.origin = "upload" /\ uploads[j.n].rec = id }


\* what is kept of a deleted document: its fields, and whether a transcode
\* of it was in flight when deleteMedia removed it
Tombstone(doc) ==
  [f \in DOMAIN doc \cup {"racing"} |-> IF f = "racing" THEN TranscodesOf(doc.id) # {} ELSE doc[f]]

\* what deleteMedia answers, from the state it finds
DeleteResponse(owner, id) ==
  IF findOne(id, owner) = NoDoc THEN Respond(404, NoDoc) ELSE Respond(200, [NoDoc EXCEPT !.id = id])

\* deleteMedia, from the lookup to the response
DeleteMedia(route, owner, id) ==
  /\ owner \in Callers(route) /\ id \in ObjectIds
  /\ LET doc == findOne(id, owner)
         paths == DeleteOriginal(owner, doc) \cup DeleteThumbnail(owner, doc) \cup DeleteOptimized(owner, doc)
     IN IF doc = NoDoc
        THEN UNCHANGED <<fs, records, deleted, apiKeys, keyRequests>>
        ELSE /\ fs' = fs \ paths
             /\ records' = deleteOne(id)
             /\ deleted' = deleted \cup {Tombstone(doc)}
  /\ UNCHANGED <<dirs, jobs, inflight, uploads, apiKeys, keyRequests>>

-----------------------------------------------------------------------------
Next ==
  \/ \E route \in Routes : UploadNoFile(route)
  \/ \E owner \in KeyOwners, f \in Files : UploadNoAccount(owner, f)
  \/ \E route \in Routes, owner \in Accounts, f \in Files, fail \in ImageFailures :
       UploadImage(route, owner, f, fail)
  \/ \E route \in Routes, owner \in Accounts, f \in Files : UploadVideo(route, owner, f)
  \/ \E owner \in Accounts, f \in Files : UploadDocument(owner, f)
  \/ \E c \in inflight : UploadCreate(c)
  \/ \E j \in jobs : ThumbnailEnd(j)
  \/ \E j \in jobs : ThumbnailError(j)
  \/ \E j \in jobs : UploadTranscodeEnd(j)
  \/ \E j \in jobs : TranscodeError(j)
  \/ \E owner \in Accounts, id \in ObjectIds : OptimizeMedia(owner, id)
  \/ \E j \in jobs : OptimizeTranscodeEnd(j)
  \/ \E j \in jobs : OptimizeTranscodeUnlink(j)
  \/ \E route \in Routes, owner \in KeyOwners, id \in ObjectIds : DeleteMedia(route, owner, id)
  \/ \E owner \in KeyOwners, id \in ObjectIds : GetMediaById(owner, id)

Spec == Init /\ [][Next]_vars

\* callbacks and continuations the event loop is bound to run: the awaited
\* Media.create resolves, and every ffmpeg job ends or errors
FairSpec ==
  /\ Spec
  /\ WF_vars(\E c \in inflight : UploadCreate(c))
  /\ WF_vars(\E j \in jobs : ThumbnailEnd(j) \/ ThumbnailError(j))
  /\ WF_vars(\E j \in jobs : UploadTranscodeEnd(j) \/ TranscodeError(j))
  /\ WF_vars(\E j \in jobs : OptimizeTranscodeEnd(j) \/ OptimizeTranscodeUnlink(j))

-----------------------------------------------------------------------------
(* optimizeMedia and deleteMedia over a collection that already holds       *)
(* documents: the inputs are the documents the Media schema admits with     *)
(* isOptimized at its default (false) and no optimizedFileUrl, of every     *)
(* file type, with their file on disk or not.                               *)

\* a stored document that has not been optimized, and its file
StoredDocument(owner, f, k) ==
  [PlainFields(owner, f, Name(<<>>, k, f.ext),
               getUserFilePath(owner, MediaType(f), Name(<<>>, k, f.ext)), NullUrl) EXCEPT !.id = k]
StoredFile(owner, f, k) == getUserFilePath(owner, MediaType(f), Name(<<>>, k, f.ext))

OptimizeInit ==
  \E in \in [ObjectIds -> Accounts \X Files \X BOOLEAN] :
    /\ records = [k \in ObjectIds |-> StoredDocument(in[k][1], in[k][2], k)]
    /\ fs = { StoredFile(in[k][1], in[k][2], k) : k \in { i \in ObjectIds : in[i][3] } }
    /\ dirs = StagingDirs \cup UNION { MediaDestination({}, in[k][1], MediaType(in[k][2])) : k \in ObjectIds }
    /\ jobs = {}
    /\ inflight = {}
    /\ uploads = <<>>
    /\ deleted = {}
  /\ apiKeys = <<>>
  /\ keyRequests = <<>>

OptimizeNext ==
  \/ \E owner \in Accounts, id \in ObjectIds : OptimizeMedia(owner, id)
  \/ \E j \in jobs : OptimizeImageFinish(j)
  \/ \E j \in jobs : OptimizeTranscodeEnd(j)
  \/ \E j \in jobs : OptimizeTranscodeUnlink(j)
  \/ \E j \in jobs : TranscodeError(j)
  \/ \E route \in Routes, owner \in KeyOwners, id \in ObjectIds : DeleteMedia(route, owner, id)

OptimizeSpec == OptimizeInit /\ [][OptimizeNext]_vars

-----------------------------------------------------------------------------
(* createApiKey (POST /api/keys): `await ApiKey.findOne({ userId, name })`, *)
(* then `await ApiKey.create({ key, name, userId })`; the handler is cut    *)
(* between the two.                                                         *)

\* the names requests ask for
KeyNames == {"ci", "deploy"}

\* a document of the ApiKey collection
ApiKey(key, name, userId) == [key |-> key, name |-> name, userId |-> userId]

\* a createApiKey request and how far it got
KeyRequest(userId, name, st, status) == [userId |-> userId, name |-> name, st |-> st, status |-> status]

\* ApiKey.findOne({ userId, name }) finds a document
existingKey(userId, name) ==
  \E i \in DOMAIN apiKeys : apiKeys[i].userId = userId /\ apiKeys[i].name = name

\* ApiKey.generateKey(): 32 random bytes, never drawn twice
generateKey == Len(apiKeys) + 1

\* createApiKey up to `await ApiKey.create`: the lookup, and the 400 when it
\* finds a key of that name
CreateApiKeyCheck(userId, name) ==
  /\ userId \in Accounts /\ name \in KeyNames
  /\ Len(keyRequests) < MaxKeyRequests
  /\ keyRequests' = Append(keyRequests,
       IF existingKey(userId, name) THEN KeyRequest(userId, name, "rejected", 400)
       ELSE KeyRequest(userId, name, "checked", 0))
  /\ UNCHANGED <<fs, dirs, records, jobs, inflight, uploads, deleted, apiKeys>>

\* `const apiKey = await ApiKey.create({ key, name, userId }); res.status(201)`:
\* the schema has a unique index on key only
CreateApiKeyCreate(n) ==
  /\ n \in DOMAIN keyRequests /\ keyRequests[n].st = "checked"
  /\ apiKeys' = Append(apiKeys, ApiKey(generateKey, keyRequests[n].name, keyRequests[n].userId))
  /\ keyRequests' = [keyRequests EXCEPT ![n].st = "created", ![n].status = 201]
  /\ UNCHANGED <<fs, dirs, records, jobs, inflight, uploads, deleted>>

KeyNext ==
  \/ \E userId \in Accounts, name \in KeyNames : CreateApiKeyCheck(userId, name)
  \/ \E n \in DOMAIN keyRequests : CreateApiKeyCreate(n)

KeySpec == Init /\ [][KeyNext]_vars

-----------------------------------------------------------------------------
(* Properties *)

\* express.static mounted at /uploads: the file a URL serves
ServedPath(url) == At(url.dir, url.n)

\* the files a document refers to through its three URLs
Referenced(doc) ==
  { ServedPath(u) : u \in {doc.fileUrl, doc.thumbnailUrl, doc.optimizedFileUrl} \ {NullUrl} }

Accepted(k) == k \in 1..Len(uploads) /\ uploads[k].st = "accepted"

\* the documents ever created for upload k: stored ones and deleted ones
CreatedFor(k) ==
  { id \in DOMAIN records : records[id].fileName.s = k } \cup
  { d.id : d \in { x \in deleted : x.fileName.s = k } }

\* the path of an uploaded video in its owner's videos directory
OriginalVideo(k) == getUserFilePath(uploads[k].owner, "videos", Name(<<>>, k, uploads[k].file.ext))

\* C1: for every accepted video upload whose background transcode ends
\* successfully, the record returned by the upload (while it is stored)
\* eventually has isOptimized = true and fileUrl = the optimized locator,
\* and the original video is no longer on disk.
C1_EventualVideoOptimization ==
  \A k \in 1..MaxUploads :
    (Accepted(k) /\ isVideo(uploads[k].file) /\ uploads[k].trans = "ok")
      ~> (/\ Accepted(k)
          /\ uploads[k].rec \in DOMAIN records =>
               /\ records[uploads[k].rec].isOptimized
               /\ records[uploads[k].rec].fileUrl =
                    OptimizedUrl(uploads[k].owner, "videos", OptVideoName(Name(<<>>, k, uploads[k].file.ext)))
               /\ OriginalVideo(k) \notin fs)

\* C2: within one video upload the record is created before the transcode
\* that is to update it is launched: whenever such a job exists (so its end
\* callback can run), the record of its upload has been created.
C2_RecordBeforeJob ==
  \A j \in JobsOf("transcode", "upload") : uploads[j.n].created > 0

\* C3: the record returned by an accepted image upload (either route) has
\* isOptimized = true and fileUrl = optimizedFileUrl = the .webp under the
\* owner's images/optimized directory, and no file remains at the path where
\* the upload was stored.
C3_AcceptedImage ==
  \A k \in 1..Len(uploads) :
    (Accepted(k) /\ isImage(uploads[k].file)) =>
      LET m == uploads[k].media
      IN /\ uploads[k].status = 201
         /\ m.isOptimized
         /\ m.fileUrl = m.optimizedFileUrl
         /\ m.fileUrl = At(<<uploads[k].owner, "images", "optimized">>, Name(<<>>, k, ".webp"))
         /\ uploads[k].path \notin fs

C3_Witness ==
  \E k \in 1..Len(uploads) :
    Accepted(k) /\ isImage(uploads[k].file) /\ uploads[k].route = "external"

\* C4: the record returned by an accepted video upload (either route) has
\* isOptimized = false and its fileUrl is the locator of the original video
\* in the owner's videos directory, where the file exists when the response
\* is sent.
C4_AcceptedVideo ==
  [][\A c \in inflight :
       (UploadCreate(c) /\ isVideo(c.doc.fileType)) =>
         LET m == uploads'[c.k].media
         IN /\ uploads'[c.k].status = 201
            /\ ~m.isOptimized
            /\ m.fileUrl = At(<<c.owner, "videos">>, Name(<<>>, c.k, uploads[c.k].file.ext))
            /\ ServedPath(m.fileUrl) \in fs']_vars

C4_Witness ==
  \E k \in 1..Len(uploads) :
    /\ Accepted(k) /\ isVideo(uploads[k].file) /\ uploads[k].route = "external"
    /\ ~uploads[k].media.isOptimized

C7_OwnerIsolation ==
  /\ \A k \in 1..Len(uploads) : uploads[k].path.dir # <<>> /\ uploads[k].path.dir[1] = uploads[k].owner
  /\ \A p \in fs : p.dir # <<>> /\ p.dir[1] \in KeyOwners
  /\ \A owner \in KeyOwners, id \in ObjectIds :
       findOne(id, owner) # NoDoc => findOne(id, owner).userId = owner

\* what the synchronous part of an upload leaves on disk
SyncWorkDone(c) ==
  LET name == Name(<<>>, c.k, uploads[c.k].file.ext)
  IN IF isImage(c.doc.fileType)
     THEN /\ getOptimizedPath(c.owner, "images", WebpName(name)) \in fs
          /\ getThumbnailPath(c.owner, ImageThumbName(WebpName(name))) \in fs
          /\ uploads[c.k].path \notin fs
     ELSE IF isVideo(c.doc.fileType)
     THEN /\ {<<c.owner, "videos">>, <<c.owner, "thumbnails">>, <<c.owner, "videos", "optimized">>} \subseteq dirs
          /\ getUserFilePath(c.owner, "videos", name) \in fs
     ELSE uploads[c.k].path \in fs

\* C8: an accepted upload has created exactly one document, and created it
\* when its synchronous work was complete (image: re-encode and thumbnail
\* written, original unlinked; video: directories set up, file in the
\* owner's directory); an upload that is not (yet) accepted has created none.
C8_OneRecordPerUpload ==
  [][/\ \A c \in inflight : UploadCreate(c) =>
           /\ SyncWorkDone(c)
           /\ Cardinality(DOMAIN records') = Cardinality(DOMAIN records) + 1
      /\ \A k \in 1..Len(uploads') :
           /\ uploads'[k].st = "accepted" => uploads'[k].created = 1 /\ Cardinality(CreatedFor(k)') = 1
           /\ uploads'[k].st # "accepted" => uploads'[k].created = 0 /\ CreatedFor(k)' = {}]_vars

C8_Witness ==
  /\ \E k \in 1..Len(uploads) : Accepted(k) /\ Cardinality(CreatedFor(k)) = 1
  /\ \E k \in 1..Len(uploads) : uploads[k].st = "failed" /\ CreatedFor(k) = {}

\* C9: an image upload in which the re-encode, the size read or the
\* thumbnail write fails is answered with an error, creates no document and
\* leaves the uploaded original on disk.
C9_ImageFailure ==
  \A k \in 1..Len(uploads) :
    (uploads[k].st = "failed" /\ isImage(uploads[k].file) /\ uploads[k].owner \in Accounts) =>
      /\ uploads[k].status = 500
      /\ uploads[k].created = 0 /\ CreatedFor(k) = {}
      /\ uploads[k].path \in fs

C9_Witness ==
  \E k \in 1..Len(uploads) :
    /\ uploads[k].st = "failed" /\ isImage(uploads[k].file) /\ uploads[k].status = 500
    /\ getOptimizedPath(uploads[k].owner, "images", Name(<<>>, k, ".webp")) \in fs

\* C10: an upload answered 400 (no file) or 401 (no owner, or the owner's
\* account not found) leaves the files on disk and the documents in the
\* store as they were, on both routes.
C10_RejectedLeavesNoTrace ==
  [][/\ \A route \in Routes : UploadNoFile(route) => fs' = fs /\ records' = records
     /\ (Len(uploads') > Len(uploads) /\ uploads'[Len(uploads')].status \in {400, 401}) =>
          fs' = fs /\ records' = records]_vars

\* C11: a video transcode that ends in error (launched by upload or by
\* optimizeMedia) changes no field of any record, deletes no record, leaves
\* every file (the original among them) on disk and starts no transcode.
C11_TranscodeFailureHarmless ==
  [][/\ \A j \in jobs : TranscodeError(j) =>
           records' = records /\ fs' = fs /\ jobs' = jobs \ {j}
     /\ \A k \in 1..Len(uploads) :
           (uploads[k].trans = "running" /\ uploads'[k].trans = "error") =>
              /\ records' = records /\ fs' = fs /\ jobs' \subseteq jobs
              /\ (Accepted(k) /\ uploads[k].rec \in DOMAIN records) =>
                    uploads[k].rec \in DOMAIN records']_vars

C11_Witness ==
  \E k \in 1..Len(uploads) :
    /\ Accepted(k) /\ uploads[k].trans = "error"
    /\ uploads[k].rec \in DOMAIN records
    /\ ~records[uploads[k].rec].isOptimized
    /\ OriginalVideo(k) \in fs
    /\ JobsOf("transcode", "optimize") = {}

\* a document of the collection whose MIME type is neither image/* nor video/*
IsDocument(doc) == doc # NoDoc /\ ~isImage(doc.fileType) /\ ~isVideo(doc.fileType)

\* C12: a record whose MIME type is neither image/* nor video/* never has a
\* thumbnailUrl or an optimizedFileUrl and is never flagged optimized, and
\* optimizeMedia on it answers 400 and changes no record and no file.
C12_DocumentsNoDerivatives ==
  [][/\ \A id \in DOMAIN records' :
           IsDocument(records'[id]) =>
              /\ records'[id].thumbnailUrl = NullUrl
              /\ records'[id].optimizedFileUrl = NullUrl
              /\ ~records'[id].isOptimized
     /\ \A owner \in Accounts, id \in ObjectIds :
           (IsDocument(findOne(id, owner)) /\ OptimizeMedia(owner, id)) =>
              /\ OptimizeResponse(owner, id).status = 400
              /\ records' = records /\ fs' = fs /\ jobs' = jobs]_vars

C12_Witness ==
  \E id \in DOMAIN records : IsDocument(records[id]) /\ ServedPath(records[id].fileUrl) \in fs

\* C13: optimizeMedia on an un-optimized video answers 202 at once, the
\* record still having isOptimized = false, and leaves a running transcode
\* behind; once that transcode has succeeded and saved the record, the
\* record (while stored) eventually has optimizedFileUrl = fileUrl = the
\* optimized locator, isOptimized = true and fileSize = the size of the
\* optimized file, and the original file is gone.
C13_ReoptimizeVideo ==
  /\ [][jobs' # jobs => \A owner \in Accounts, id \in ObjectIds :
          (OptimizeBranch(findOne(id, owner)) = "video" /\ OptimizeMedia(owner, id)) =>
             /\ OptimizeResponse(owner, id).status = 202
             /\ records' = records
             /\ ~records'[id].isOptimized
             /\ \E j \in jobs' \ jobs : j.kind = "transcode" /\ j.st = "running" /\ j.doc.id = id]_vars
  /\ \A id \in ObjectIds :
       (\E j \in JobsOf("transcode", "optimize") : j.st = "saved" /\ j.doc.id = id)
         ~> (id \in DOMAIN records =>
               LET d == records[id]
                   opt == OptVideoName(d.fileName)
               IN /\ d.isOptimized
                  /\ d.optimizedFileUrl = At(<<d.userId, "videos", "optimized">>, opt)
                  /\ d.fileUrl = d.optimizedFileUrl
                  /\ d.fileSize = StatSize(ServedPath(d.optimizedFileUrl))
                  /\ At(<<d.userId, "videos">>, d.fileName) \notin fs)

C13_Witness ==
  \E id \in DOMAIN records :
    /\ isVideo(records[id].fileType) /\ records[id].isOptimized
    /\ At(<<records[id].userId, "videos">>, records[id].fileName) \notin fs
    /\ ServedPath(records[id].fileUrl) \in fs
    /\ JobsOf("transcode", "optimize") = {}

\* C14: outcome and status of every request: accepted upload 201; upload
\* without a file 400; upload whose owner has no account 401; read and
\* delete 200 on a record of the owner and 404 without one; optimizeMedia
\* 404 without a record, 200 with the record as it is when it is already
\* optimized, 202 on an un-optimized video, 400 on a document.
C14_StatusMapping ==
  /\ \A k \in 1..Len(uploads) :
       /\ Accepted(k) => uploads[k].status = 201 /\ uploads[k].media.id = uploads[k].rec
       /\ uploads[k].owner \notin Accounts => uploads[k].status = 401
  /\ \A owner \in KeyOwners :
       /\ UploadRejection(FALSE, owner) = 400
       /\ owner \notin Accounts => UploadRejection(TRUE, owner) = 401
  /\ \A owner \in KeyOwners, id \in ObjectIds :
       LET doc == findOne(id, owner)
       IN IF doc = NoDoc
          THEN /\ ReadResponse(owner, id).status = 404
               /\ DeleteResponse(owner, id).status = 404
               /\ OptimizeResponse(owner, id).status = 404
          ELSE /\ ReadResponse(owner, id) = Respond(200, doc)
               /\ DeleteResponse(owner, id).status = 200
               /\ doc.isOptimized => OptimizeResponse(owner, id) = Respond(200, doc)
               /\ (isVideo(doc.fileType) /\ ~doc.isOptimized) => OptimizeResponse(owner, id).status = 202
               /\ IsDocument(doc) => OptimizeResponse(owner, id).status = 400

C14_Witness ==
  /\ \E id \in DOMAIN records : isVideo(records[id].fileType) /\ ~records[id].isOptimized
  /\ \E k \in 1..Len(uploads) : uploads[k].status = 401

\* C15: a transcode completion removes the original video only after the
\* record points at the optimized file: no stored video record has a
\* fileUrl that names the original while the original is off the disk.
C15_CompletionOrdering ==
  \A id \in DOMAIN records :
    (isVideo(records[id].fileType) /\ ~IncludesOptimized(records[id].fileUrl)) =>
      /\ records[id].fileUrl = At(<<records[id].userId, "videos">>, records[id].fileName)
      /\ ServedPath(records[id].fileUrl) \in fs

C15_Witness ==
  /\ \E k \in 1..Len(uploads) :
       /\ Accepted(k) /\ uploads[k].trans = "ok" /\ uploads[k].rec \in DOMAIN records
       /\ ~IncludesOptimized(records[uploads[k].rec].fileUrl)
       /\ OriginalVideo(k) \in fs
  /\ \E id \in DOMAIN records :
       /\ isVideo(records[id].fileType) /\ IncludesOptimized(records[id].fileUrl)
       /\ At(<<records[id].userId, "videos">>, records[id].fileName) \notin fs

JobsOn(k) == { j \in jobs : j.src.n.s = k }

\* C17: when deleteMedia has removed a video record while a transcode of it
\* was in flight, then, once no job of that upload is in flight any more, no
\* file derived from the upload (original, thumbnail, opt_*.mp4) is on disk
\* and no record of the upload is stored.
C17_DeleteRacingTranscode ==
  \A d \in deleted :
    (d.racing /\ JobsOn(d.fileName.s) = {}) =>
      /\ \A p \in fs : p.n.s # d.fileName.s
      /\ \A id \in DOMAIN records : records[id].fileName.s # d.fileName.s

C19_JobsReadMovedFile ==
  [][Len(uploads') > Len(uploads) =>
       \A j \in jobs' \ jobs : j.src \in fs']_vars

\* C20: when the thumbnail extraction of an uploaded video has failed, the
\* record stored for the upload has no thumbnailUrl; hence every
\* thumbnailUrl of a video record whose extraction is over names a file on
\* disk.
C20_ThumbnailFailureUnset ==
  \A k \in 1..Len(uploads) :
    (/\ Accepted(k) /\ isVideo(uploads[k].file)
     /\ uploads[k].thumb = "error"
     /\ uploads[k].rec \in DOMAIN records) =>
       records[uploads[k].rec].thumbnailUrl = NullUrl

\* C21: when the synchronous image pipeline of an upload has failed, neither
\* the optimized .webp nor the thumbnail that upload writes is on disk.
C21_FailedImageCleansUp ==
  \A k \in 1..Len(uploads) :
    (uploads[k].st = "failed" /\ isImage(uploads[k].file) /\ uploads[k].owner \in Accounts) =>
      LET webp == WebpName(Name(<<>>, k, uploads[k].file.ext))
      IN /\ getOptimizedPath(uploads[k].owner, "images", webp) \notin fs
         /\ getThumbnailPath(uploads[k].owner, ImageThumbName(webp)) \notin fs

\* the sub-directories ensureUserDirExists is called with
SubDirs == { <<t>> : t \in {"images", "videos", "documents", "thumbnails"} }
             \cup { <<t, "optimized">> : t \in {"images", "videos"} }

\* C22: once the handler of an image or video upload of an account has done
\* its synchronous work, the owner's category directory, its optimized child
\* and the owner's thumbnails directory exist, and every file on disk lies
\* in a directory that exists; calling ensureUserDirExists a second time
\* creates nothing.
C22_DirectoriesBeforeArtifacts ==
  /\ \A k \in 1..Len(uploads) :
       (uploads[k].owner \in Accounts /\ (isImage(uploads[k].file) \/ isVideo(uploads[k].file))) =>
          LET owner == uploads[k].owner
              mediaType == MediaType(uploads[k].file)
          IN {<<owner, mediaType>>, <<owner, mediaType, "optimized">>, <<owner, "thumbnails">>} \subseteq dirs
  /\ \A p \in fs : p.dir \in dirs
  /\ \A owner \in Accounts, subDir \in SubDirs :
       ensureUserDirExists(ensureUserDirExists(dirs, owner, subDir), owner, subDir)
         = ensureUserDirExists(dirs, owner, subDir)

\* C23: in every state, none of the files a removed record referred to
\* (fileUrl, thumbnailUrl, optimizedFileUrl) is on disk.
C23_DeletionOrder ==
  \A d \in deleted : Referenced(d) \cap fs = {}

\* C24: a deleteMedia that finds its record answers 200, unlinks nothing but
\* files the record refers to (for a record whose fileUrl contains
\* /optimized/: nothing but the optimized file and the thumbnail), creates
\* no file, removes that record only and leaves every other record, and
\* every file of another upload, as it was.
C24_DeletionFrame ==
  [][deleted' # deleted =>
     \A d \in deleted' \ deleted :
       /\ DeleteResponse(d.userId, d.id).status = 200
       /\ fs' \subseteq fs
       /\ fs \ fs' \subseteq Referenced(d)
       /\ IncludesOptimized(d.fileUrl) =>
            fs \ fs' \subseteq {ServedPath(d.fileUrl), ServedPath(d.thumbnailUrl)}
       /\ \A p \in fs : p.n.s # d.fileName.s => p \in fs'
       /\ DOMAIN records' = DOMAIN records \ {d.id}
       /\ \A id \in DOMAIN records' : records'[id] = records[id]]_vars

C24_Witness ==
  \E d \in deleted :
    /\ IncludesOptimized(d.fileUrl)
    /\ At(<<d.userId, MediaType(d.fileType)>>, d.fileName) \notin fs
    /\ \E id \in DOMAIN records : Referenced(records[id]) \cap fs # {}

\* C25: optimizeMedia on an image record that is not optimized and whose
\* file name does not end in .webp writes the re-encoded file under the
\* owner's images/optimized directory, and when the handler has finished and
\* the record is still stored, the record has isOptimized = true,
\* optimizedFileUrl = fileUrl = the locator of that file, fileSize = its
\* size; the file is on disk and the previous file, at a different path, is
\* not.
C25_ReoptimizeImage ==
  [][jobs' # jobs =>
     /\ \A owner \in Accounts, id \in ObjectIds :
          (/\ OptimizeBranch(findOne(id, owner)) = "image"
           /\ getUserFilePath(owner, "images", findOne(id, owner).fileName) \in fs
           /\ OptimizeMedia(owner, id)) =>
             /\ getOptimizedPath(owner, "images", OptWebpName(findOne(id, owner).fileName)) \in fs'
             /\ OptimizeResponse(owner, id).status = 200
             /\ \E j \in jobs' \ jobs : j.kind = "image" /\ j.doc.id = id
     /\ \A j \in JobsOf("image", "optimize") :
          (j.doc.id \in DOMAIN records /\ OptimizeImageFinish(j)) =>
             LET d == records'[j.doc.id]
                 opt == At(<<j.owner, "images", "optimized">>, OptWebpName(j.doc.fileName))
             IN /\ d.isOptimized
                /\ d.optimizedFileUrl = opt /\ d.fileUrl = opt
                /\ d.fileSize = StatSize(ServedPath(opt))
                /\ ServedPath(d.fileUrl) \in fs'
                /\ j.src # ServedPath(opt) /\ j.src \notin fs']_vars

C25_Witness ==
  \E id \in DOMAIN records :
    LET d == records[id]
    IN /\ isImage(d.fileType) /\ d.fileName.e # ".webp"
       /\ d.isOptimized /\ d.fileUrl = d.optimizedFileUrl
       /\ d.fileUrl.n = OptWebpName(d.fileName)
       /\ ServedPath(d.fileUrl) \in fs
       /\ getUserFilePath(d.userId, "images", d.fileName) \notin fs
       /\ JobsOf("image", "optimize") = {}

\* C26: an optimizeMedia or deleteMedia for an (owner, id) pair that has no
\* record (the id is unknown or belongs to another owner) answers 404, an
\* optimizeMedia on a document answers 400, and in all these cases no file,
\* directory, record or job changes.
C26_RequestErrorsChangeNothing ==
  /\ [](\A owner \in KeyOwners, id \in ObjectIds :
          LET absent == id \notin DOMAIN records \/ records[id].userId # owner
          IN /\ absent => DeleteResponse(owner, id).status = 404 /\ OptimizeResponse(owner, id).status = 404
             /\ (~absent /\ IsDocument(records[id])) => OptimizeResponse(owner, id).status = 400)
  /\ [][vars' # vars =>
          \A owner \in KeyOwners, id \in ObjectIds :
            LET absent == id \notin DOMAIN records \/ records[id].userId # owner
            IN /\ absent => /\ \A route \in Routes : ~DeleteMedia(route, owner, id)
                            /\ ~OptimizeMedia(owner, id)
               /\ (~absent /\ IsDocument(records[id])) => ~OptimizeMedia(owner, id)]_vars

C26_Witness ==
  /\ \E id \in DOMAIN records : IsDocument(records[id]) /\ ServedPath(records[id].fileUrl) \in fs
  /\ \E id \in DOMAIN records : records[id].userId = "u1" /\ findOne(id, "u2") = NoDoc
                                  /\ Referenced(records[id]) \cap fs # {}

\* C27: no step changes the isOptimized of a record that stays in the
\* collection from true to false.
C27_IsOptimizedMonotone ==
  [][records' # records =>
       \A id \in DOMAIN records \cap DOMAIN records' :
         records[id].isOptimized => records'[id].isOptimized]_vars

C27_Witness ==
  /\ \E id \in DOMAIN records : isVideo(records[id].fileType) /\ records[id].isOptimized
  /\ \E id \in DOMAIN records :
       /\ isImage(records[id].fileType) /\ records[id].fileName.e = ".webp"
       /\ records[id].isOptimized /\ records[id].optimizedFileUrl = NullUrl

\* C28: every stored image record an upload has created has a .webp
\* fileName, isOptimized = true and optimizedFileUrl set; optimizeMedia by
\* its owner takes the 'already optimized' branch and answers 200 with the
\* record, and no optimizeMedia handler is ever inside the image branch.
C28_UploadedImagesAlreadyOptimized ==
  /\ \A id \in DOMAIN records :
       LET d == records[id]
       IN isImage(d.fileType) =>
            /\ d.fileName.e = ".webp"
            /\ d.isOptimized /\ d.optimizedFileUrl # NullUrl
            /\ OptimizeBranch(findOne(id, d.userId)) = "already"
            /\ OptimizeResponse(d.userId, id) = Respond(200, d)
  /\ JobsOf("image", "optimize") = {}

C28_Witness ==
  \E k \in 1..Len(uploads) :
    /\ Accepted(k) /\ uploads[k].route = "media" /\ uploads[k].file.ext = ".png"
    /\ uploads[k].rec \in DOMAIN records
    /\ records[uploads[k].rec].fileName.e = ".webp"

\* C29: two distinct stored records never refer to the same file and never
\* carry the same stored name; and a step that removes or writes a file a
\* stored record refers to removes and writes only files named after that
\* record's upload, so that deleting or re-optimizing one record leaves the
\* files of every other record alone.
C29_PathsNeverShared ==
  /\ [](\A id1, id2 \in DOMAIN records :
          id1 # id2 =>
            /\ Referenced(records[id1]) \cap Referenced(records[id2]) = {}
            /\ records[id1].fileName.s # records[id2].fileName.s)
  /\ [][fs' # fs =>
          \A id \in DOMAIN records \cap DOMAIN records' :
            \A p \in (fs \ fs') \cup (fs' \ fs) :
              p \in Referenced(records[id]) \cup Referenced(records'[id]) =>
                \A q \in (fs \ fs') \cup (fs' \ fs) : q.n.s = records[id].fileName.s]_vars

C29_Witness ==
  \E id1, id2 \in DOMAIN records :
    /\ id1 # id2 /\ records[id1].userId = records[id2].userId
    /\ records[id1].fileType = records[id2].fileType
    /\ Referenced(records[id1]) \subseteq fs /\ Referenced(records[id2]) \subseteq fs

\* C30: a user never has two API keys of the same name, and a createApiKey
\* request answered 400 has created no key.
C30_KeyNamesUnique ==
  /\ \A i, j \in DOMAIN apiKeys :
       (i # j /\ apiKeys[i].userId = apiKeys[j].userId) => apiKeys[i].name # apiKeys[j].name
  /\ Len(apiKeys) = Cardinality({ n \in DOMAIN keyRequests : keyRequests[n].st = "created" })

====
